---- MODULE Spec2Model ----
\* Model of gorm's prepared-statement pool (prepare_stmt.go) and of the
\* session/clone engine of the DB handle (gorm.go).
EXTENDS Integers, Sequences, FiniteSets, TLC

\* ------------------------------------------------------------------ bounds
NumCallers == 2
NumTemplates == 2
MaxStmts == 2
MaxHandles == 3
MaxMutations == 2
MaxErrors == 3
NumPlugins == 3
MaxInits == 2
MaxTx == 3
MaxTxCalls == 2

Callers == 1..NumCallers
Templates == 1..NumTemplates
StmtIds == 1..MaxStmts
NoStmt == 0

VARIABLES
    Stmts,      \* PreparedStmtDB.Stmts: template -> Stmt id (NoStmt: no entry)
    heap,       \* the *stmt_store.Stmt objects ever created, by id
    Mux,        \* PreparedStmtDB.Mux: [readers, writer]
    pc,         \* each caller's position inside its call
    wrapper,    \* "DB" (PreparedStmtDB) or "TX" (PreparedStmtTX) the call is made on
    op,         \* "Exec", "Query" or "QueryRow": the method the call was made
                \* through; prepare does not depend on it, so it is drawn where
                \* prepare returns to it
    query,      \* the template of the call
    got,        \* the *Stmt that prepare handed to the caller
    ret,        \* the call that returned in the last step, with what it returned
                \* (NoRet when the last step was not a return)
    closer,     \* position of the goroutine running Close
    err,        \* the error of the execution, while the call is on its way to Delete
    evicted,    \* history: ids removed from Stmts by Delete (eviction, Close, expiry)
    stale,      \* history: ids on which a returned Exec/Query call reported ErrBadConn
    closed      \* history: ids that were in Stmts when a Close deleted its keys

storeVars == <<Stmts, heap, Mux, pc, wrapper, op, err, query, got, ret,
               closer, evicted, stale, closed>>

VARIABLES
    dbs,        \* the *DB handles, by id: [used, Config, Error, Statement, clone],
                \* with the history of how each was derived (parent, via, flags)
    configs,    \* the *Config objects, by id (id of the handle they were made for)
    stmtObjs,   \* the *Statement objects, by id (id of the handle they were made for)
    cacheStore, \* Config.cacheStore, shared by the lineage: the PreparedStmtDB stored
                \* under preparedStmtDBKey (NoStore: none)
    nStores,    \* the PreparedStmtDB that NewPreparedStmtDB has made so far
    sess,       \* the Session calls under way, by goroutine: [pc, h, c, v]
    nMut,       \* mutations of request objects done so far
    returned    \* the handles that getInstance, Session, Set, InstanceSet have returned

sessionVars == <<dbs, configs, stmtObjs, cacheStore, nStores, nMut, returned>>

VARIABLES
    Plugins,    \* the Config.Plugins maps, by id: name -> plugin (NoPlugin: none)
    inits,      \* history: the Initialize calls each plugin has had
    useRet      \* the last return of Use: [h, plugin, result]

pluginVars == <<Plugins, inits, useRet>>

VARIABLES
    txs,        \* the *PreparedStmtTX wrappers, by id: [made, Tx, calls]
    txRet       \* the last return of BeginTx, Commit, Rollback: [op, tx, result]

txVars == <<txs, txRet>>

vars == <<storeVars, sessionVars, pluginVars, txVars, sess>>

\* ------------------------------------------------------------ the store
NoRet == [wrapper |-> "none", op |-> "none", query |-> 0,
          stmt |-> 0, result |-> "none", nExec |-> 0, via |-> "none"]

NoEntry == [query |-> 0, Transaction |-> FALSE, conn |-> "none", state |-> "none"]

isTransaction(p) == wrapper[p] = "TX"

\* the conn argument of prepare: db.ConnPool on the pool wrapper, tx.Tx on the
\* transaction wrapper
connOf_AlwaysPool(p) == "ConnPool"

connOf(p) == IF wrapper[p] = "TX" THEN "Tx" ELSE "ConnPool"

\* what executes the statement: stmt.ExecContext itself on the pool wrapper,
\* tx.Tx.StmtContext(ctx, stmt.Stmt).ExecContext on the transaction wrapper
Dispatch(w) == IF w = "TX" THEN "Tx.StmtContext" ELSE "Stmt"

CanReuse_OnlyNonTx(ok, stmtTransaction, isTx) == ok /\ ~stmtTransaction

CanReuse_AnyEntry(ok, stmtTransaction, isTx) == ok

CanReuse_SameScope(ok, stmtTransaction, isTx) == ok /\ (stmtTransaction = isTx)

\* ok && (!stmt.Transaction || isTransaction)
CanReuse(ok, stmtTransaction, isTx) == ok /\ (~stmtTransaction \/ isTx)

\* the lookup under the read lock
RHit(q, isTx) == CanReuse(Stmts[q] # NoStmt, heap[Stmts[q]].Transaction, isTx)

WHit_NoDoubleCheck(q, isTx) == FALSE

\* the second lookup, under the write lock
WHit(q, isTx) == CanReuse(Stmts[q] # NoStmt, heap[Stmts[q]].Transaction, isTx)

ShouldEvict_Never(e) == FALSE

ShouldEvict_AnyError(e) == e # "ok"

\* errors.Is(err, driver.ErrBadConn) after ExecContext / QueryContext
ShouldEvict(e) == e = "ErrBadConn"

\* what a call returns when prepare returned an error
OnPrepareError(o) == IF o = "QueryRow" THEN "emptyRow" ELSE "compileErr"

nextId == Cardinality({i \in StmtIds : heap[i].state # "none"}) + 1

\* the callers that are inside prepare and may still create an entry
InPrepare == {p \in Callers : pc[p] \in {"RLock", "RCheck", "Lock", "WCheck"}}

StoreInit ==
    /\ Stmts = [q \in Templates |-> NoStmt]
    /\ heap = [i \in {NoStmt} \cup StmtIds |-> NoEntry]
    /\ Mux = [readers |-> {}, writer |-> 0]
    /\ pc = [p \in Callers |-> "idle"]
    /\ wrapper = [p \in Callers |-> "DB"]
    /\ op = [p \in Callers |-> "none"]
    /\ err = [p \in Callers |-> "none"]
    /\ query = [p \in Callers |-> 1]
    /\ got = [p \in Callers |-> NoStmt]
    /\ ret = NoRet
    /\ closer = "idle"
    /\ evicted = {}
    /\ stale = {}
    /\ closed = {}

\* a call of ExecContext / QueryContext / QueryRowContext on one of the
\* wrappers, for template q; it starts with prepare
Call(p) ==
    /\ UNCHANGED <<sessionVars, pluginVars, txVars, sess>>
    /\ pc[p] = "idle"
    /\ nextId + Cardinality(InPrepare) <= MaxStmts
    /\ \E w \in {"DB", "TX"}, q \in Templates :
        /\ wrapper' = [wrapper EXCEPT ![p] = w]
        /\ query' = [query EXCEPT ![p] = q]
    /\ pc' = [pc EXCEPT ![p] = "RLock"]
    /\ ret' = NoRet
    /\ UNCHANGED <<Stmts, heap, Mux, op, err, got, closer, evicted, stale, closed>>

\* the call made through method o returns r, after n executions of the statement
Return(p, o, r, n) ==
    /\ pc' = [pc EXCEPT ![p] = "idle"]
    /\ ret' = [wrapper |-> wrapper[p], op |-> o, query |-> query[p],
               stmt |-> got[p], result |-> r, nExec |-> n,
               via |-> IF n = 0 THEN "none" ELSE Dispatch(wrapper[p])]
    /\ stale' = IF o # "QueryRow" /\ r = "ErrBadConn" THEN stale \cup {got[p]} ELSE stale
    /\ closed' = closed
    /\ op' = [op EXCEPT ![p] = "none"]
    /\ err' = [err EXCEPT ![p] = "none"]
    /\ wrapper' = [wrapper EXCEPT ![p] = "DB"]
    /\ query' = [query EXCEPT ![p] = 1]
    /\ got' = [got EXCEPT ![p] = NoStmt]

RUnlock_Forgotten(m, p) == m

\* prepare: db.Mux.RUnlock(), on the hit path and on the miss path
RUnlock(m, p) == [m EXCEPT !.readers = @ \ {p}]

\* prepare: db.Mux.RLock()
RLock(p) ==
    /\ UNCHANGED <<sessionVars, pluginVars, txVars, sess>>
    /\ pc[p] = "RLock"
    /\ Mux.writer = 0
    /\ Mux' = [Mux EXCEPT !.readers = @ \cup {p}]
    /\ pc' = [pc EXCEPT ![p] = "RCheck"]
    /\ ret' = NoRet
    /\ UNCHANGED <<Stmts, heap, wrapper, op, err, query, got, closer, evicted, stale, closed>>

\* prepare: the lookup under the read lock, then RUnlock on both paths
RCheck(p) ==
    /\ UNCHANGED <<sessionVars, pluginVars, txVars, sess>>
    /\ pc[p] = "RCheck"
    /\ Mux' = RUnlock(Mux, p)
    /\ IF RHit(query[p], isTransaction(p))
       THEN /\ got' = [got EXCEPT ![p] = Stmts[query[p]]]
            /\ pc' = [pc EXCEPT ![p] = "Error"]
       ELSE /\ got' = got
            /\ pc' = [pc EXCEPT ![p] = "Lock"]
    /\ ret' = NoRet
    /\ UNCHANGED <<Stmts, heap, wrapper, op, err, query, closer, evicted, stale, closed>>

\* prepare: db.Mux.Lock()
Lock(p) ==
    /\ UNCHANGED <<sessionVars, pluginVars, txVars, sess>>
    /\ pc[p] = "Lock"
    /\ Mux.writer = 0
    /\ Mux.readers = {}
    /\ Mux' = [Mux EXCEPT !.writer = p]
    /\ pc' = [pc EXCEPT ![p] = "WCheck"]
    /\ ret' = NoRet
    /\ UNCHANGED <<Stmts, heap, wrapper, op, err, query, got, closer, evicted, stale, closed>>

\* Stmts.New up to its release of the lock: the entry, tagged with
\* isTransaction, is put under the template and the write lock is released
New(p) ==
    /\ Stmts' = [Stmts EXCEPT ![query[p]] = nextId]
    /\ heap' = [heap EXCEPT ![nextId] =
                  [query |-> query[p], Transaction |-> isTransaction(p),
                   conn |-> connOf(p), state |-> "preparing"]]
    /\ got' = [got EXCEPT ![p] = nextId]
    /\ Mux' = [Mux EXCEPT !.writer = 0]
    /\ pc' = [pc EXCEPT ![p] = "Prepare"]

\* prepare: the double check under the write lock; a hit unlocks and returns
\* the entry, a miss goes on to Stmts.New
WCheck(p) ==
    /\ UNCHANGED <<sessionVars, pluginVars, txVars, sess>>
    /\ pc[p] = "WCheck"
    /\ Mux.writer = p
    /\ IF WHit(query[p], isTransaction(p))
       THEN /\ got' = [got EXCEPT ![p] = Stmts[query[p]]]
            /\ Mux' = [Mux EXCEPT !.writer = 0]
            /\ pc' = [pc EXCEPT ![p] = "Error"]
            /\ UNCHANGED <<Stmts, heap>>
       ELSE New(p)
    /\ ret' = NoRet
    /\ UNCHANGED <<wrapper, op, err, query, closer, evicted, stale, closed>>

\* prepare returned err # nil to method o: ExecContext and QueryContext return
\* the error, QueryRowContext returns &sql.Row{}
PrepareFailed(p) ==
    \E o \in {"Exec", "Query", "QueryRow"} : Return(p, o, OnPrepareError(o), 0)

\* Stmts.New after the unlock: conn.PrepareContext succeeds or fails; the
\* error is kept in the entry and returned
Prepare(p) ==
    /\ UNCHANGED <<sessionVars, pluginVars, txVars, sess>>
    /\ pc[p] = "Prepare"
    /\ \E e \in {"ok", "err"} :
        /\ heap' = [heap EXCEPT ![got[p]].state = e]
        /\ IF e = "ok"
           THEN /\ pc' = [pc EXCEPT ![p] = "Run"]
                /\ ret' = NoRet
                /\ UNCHANGED <<wrapper, op, err, query, got, stale, closed>>
           ELSE PrepareFailed(p)
    /\ UNCHANGED <<Stmts, Mux, closer, evicted>>

\* return stmt, stmt.Error(): waits for the compilation of the entry to end
Error(p) ==
    /\ UNCHANGED <<sessionVars, pluginVars, txVars, sess>>
    /\ pc[p] = "Error"
    /\ heap[got[p]].state \in {"ok", "err"}
    /\ IF heap[got[p]].state = "ok"
       THEN /\ pc' = [pc EXCEPT ![p] = "Run"]
            /\ ret' = NoRet
            /\ UNCHANGED <<wrapper, op, err, query, got, stale, closed>>
       ELSE PrepareFailed(p)
    /\ UNCHANGED <<Stmts, heap, Mux, closer, evicted>>

\* the statement is executed: stmt.ExecContext / QueryContext / QueryRowContext,
\* through tx.Tx.StmtContext on the transaction wrapper. ExecContext and
\* QueryContext go on to Stmts.Delete on ErrBadConn; QueryRowContext returns the
\* row, which carries the error
Run(p) ==
    /\ UNCHANGED <<sessionVars, pluginVars, txVars, sess>>
    /\ pc[p] = "Run"
    /\ \E o \in {"Exec", "Query", "QueryRow"}, e \in {"ok", "ErrBadConn", "ErrOther"} :
        IF o # "QueryRow" /\ ShouldEvict(e)
        THEN /\ pc' = [pc EXCEPT ![p] = "Delete"]
             /\ op' = [op EXCEPT ![p] = o]
             /\ err' = [err EXCEPT ![p] = e]
             /\ ret' = NoRet
             /\ UNCHANGED <<wrapper, query, got, stale, closed>>
        ELSE Return(p, o, e, 1)
    /\ UNCHANGED <<Stmts, heap, Mux, closer, evicted>>

\* db.Stmts.Delete(query) after ErrBadConn, then the call returns the error
Delete(p) ==
    /\ UNCHANGED <<sessionVars, pluginVars, txVars, sess>>
    /\ pc[p] = "Delete"
    /\ Stmts' = [Stmts EXCEPT ![query[p]] = NoStmt]
    /\ evicted' = evicted \cup ({Stmts[query[p]]} \ {NoStmt})
    /\ Return(p, op[p], err[p], 1)
    /\ UNCHANGED <<heap, Mux, closer>>

CloseKeys_None == {}

\* Close: db.Stmts.Keys(), the keys that the loop deletes
CloseKeys == {q \in Templates : Stmts[q] # NoStmt}

\* db.Close() is called; it starts with db.Mux.Lock()
CloseCall ==
    /\ UNCHANGED <<sessionVars, pluginVars, txVars, sess>>
    /\ closer = "idle"
    /\ closer' = "Lock"
    /\ ret' = NoRet
    /\ UNCHANGED <<Stmts, heap, Mux, pc, wrapper, op, err, query, got, evicted, stale, closed>>

\* Close: db.Mux.Lock()
CloseLock ==
    /\ UNCHANGED <<sessionVars, pluginVars, txVars, sess>>
    /\ closer = "Lock"
    /\ Mux.writer = 0
    /\ Mux.readers = {}
    /\ Mux' = [Mux EXCEPT !.writer = -1]
    /\ closer' = "locked"
    /\ ret' = NoRet
    /\ UNCHANGED <<Stmts, heap, pc, wrapper, op, err, query, got, evicted, stale, closed>>

\* Close: every key is deleted, then the deferred Unlock
CloseDelete ==
    /\ UNCHANGED <<sessionVars, pluginVars, txVars, sess>>
    /\ closer = "locked"
    /\ Stmts' = [q \in Templates |-> IF q \in CloseKeys THEN NoStmt ELSE Stmts[q]]
    /\ evicted' = evicted \cup {Stmts[q] : q \in CloseKeys}
    /\ closed' = closed \cup ({Stmts[q] : q \in Templates} \ {NoStmt})
    /\ Mux' = [Mux EXCEPT !.writer = 0]
    /\ closer' = "idle"
    /\ ret' = NoRet
    /\ UNCHANGED <<heap, pc, wrapper, op, err, query, got, stale>>

\* the store drops an entry by its own policy (least recently used, time to live)
Expire(q) ==
    /\ UNCHANGED <<sessionVars, pluginVars, txVars, sess>>
    /\ Stmts[q] # NoStmt
    /\ Stmts' = [Stmts EXCEPT ![q] = NoStmt]
    /\ evicted' = evicted \cup {Stmts[q]}
    /\ ret' = NoRet
    /\ UNCHANGED <<heap, Mux, pc, wrapper, op, err, query, got, closer, stale, closed>>

\* ------------------------------------------------------ sessions and clones
Handles == 1..MaxHandles
Root == 1
NoHandle == 0

\* the Session struct: the fields that decide what the new handle shares, and
\* DryRun, one of the options that Session sets in the configuration
AllSessionConfigs ==
    [Context : {"nil", "ctx1"}, PrepareStmt : BOOLEAN, SkipHooks : BOOLEAN,
     NewDB : BOOLEAN, Initialized : BOOLEAN, DryRun : BOOLEAN]

\* the Sessions that leave the options as they are
SessionConfigs == {c \in AllSessionConfigs : ~c.DryRun}

NoSession == [Context |-> "nil", PrepareStmt |-> FALSE, SkipHooks |-> FALSE,
              NewDB |-> FALSE, Initialized |-> FALSE, DryRun |-> FALSE]

NoSess == [pc |-> "idle", h |-> NoHandle, c |-> NoSession, v |-> 0]

\* the Sessions that set nothing but what decides which handle is returned
HandleConfigs ==
    {c \in SessionConfigs : c.Context = "nil" /\ ~c.PrepareStmt /\ ~c.SkipHooks}

NoDB == [used |-> FALSE, Config |-> 0, Error |-> <<>>, Statement |-> 0, clone |-> 0,
         parent |-> 0, via |-> "none", flags |-> NoSession]

\* a connection pool: what it is, and the PreparedStmtDB (Stmts and Mux) that
\* a prepared wrapper is bound to
Pool(kind, store) == [kind |-> kind, store |-> store]

NoStore == 0

NoPool == Pool("none", NoStore)

NoConfig == [PrepareStmt |-> FALSE, ConnPool |-> NoPool, TranslateError |-> FALSE,
             Plugins |-> 0, DryRun |-> FALSE]

NoStatement == [DB |-> 0, ConnPool |-> NoPool, Context |-> "nil", Clauses |-> {},
                Vars |-> <<>>, SkipHooks |-> FALSE, Settings |-> {}]

nextHandle == Cardinality({h \in Handles : dbs[h].used}) + 1

\* Open: the root handle, with clone = 1 and a Statement of its own; with
\* config.PrepareStmt the pool is replaced by a PreparedStmtDB kept in cacheStore;
\* translateError: Config.TranslateError is set and the Dialector is an ErrorTranslator
Open(prepareStmt, translateError) ==
    LET pool == IF prepareStmt THEN Pool("PreparedStmtDB", 1) ELSE Pool("DB", NoStore) IN
    /\ dbs = [h \in Handles |->
                IF h = Root
                THEN [NoDB EXCEPT !.used = TRUE, !.Config = Root, !.Statement = Root,
                                  !.clone = 1, !.via = "Open"]
                ELSE NoDB]
    /\ configs = [h \in Handles |->
                IF h = Root
                THEN [PrepareStmt |-> prepareStmt, ConnPool |-> pool,
                      TranslateError |-> translateError, Plugins |-> Root,
                      DryRun |-> FALSE]
                ELSE NoConfig]
    /\ stmtObjs = [h \in Handles |->
                IF h = Root
                THEN [NoStatement EXCEPT !.DB = Root, !.ConnPool = pool,
                                         !.Context = "Background"]
                ELSE NoStatement]
    /\ cacheStore = (IF prepareStmt THEN 1 ELSE NoStore)
    /\ nStores = (IF prepareStmt THEN 1 ELSE 0)
    /\ sess = [p \in Callers |-> NoSess]
    /\ nMut = 0
    /\ returned = {}

\* Statement.clone: a copy of every field of the request object
clone(stmt) == stmt

NewStatement_KeepVars(n, stmt) ==
    [DB |-> n, ConnPool |-> stmt.ConnPool, Context |-> stmt.Context, Clauses |-> {},
     Vars |-> stmt.Vars, SkipHooks |-> stmt.SkipHooks, Settings |-> {}]

NewStatement_Inherit(n, stmt) == [clone(stmt) EXCEPT !.DB = n]

\* getInstance with db.clone == 1: a new Statement that takes the pool, the
\* context and SkipHooks of db.Statement and starts with no clauses and no vars
NewStatement(n, stmt) ==
    [DB |-> n, ConnPool |-> stmt.ConnPool, Context |-> stmt.Context, Clauses |-> {},
     Vars |-> <<>>, SkipHooks |-> stmt.SkipHooks, Settings |-> {}]

\* the Statement that getInstance gives the new handle n, from the generation
\* marker and the Statement of the handle it is called on
getInstanceStatement(n, cl, stmt) ==
    IF cl = 1 THEN NewStatement(n, stmt) ELSE [clone(stmt) EXCEPT !.DB = n]

NeedsClone_NoContext(c) == c.PrepareStmt \/ c.SkipHooks

NeedsClone_NoSkipHooks(c) == c.Context # "nil" \/ c.PrepareStmt

\* Session: config.Context != nil || config.PrepareStmt || config.SkipHooks
NeedsClone(c) == c.Context # "nil" \/ c.PrepareStmt \/ c.SkipHooks

\* Session, PrepareStmt: the PreparedStmtDB that cacheStore.Load returned, or
\* else a new one
LoadOrNew(v) == IF v # NoStore THEN v ELSE nStores + 1

\* Session, PrepareStmt: the type switch on tx.Statement.ConnPool; st is the
\* PreparedStmtDB that the wrapper is bound to
PreparedPool(pool, st) ==
    IF pool.kind \in {"Tx", "PreparedStmtTX"}
    THEN Pool("PreparedStmtTX", st)
    ELSE Pool("PreparedStmtDB", st)

\* Session: the Statement of tx before the Initialized step, as a value
SessionStatement(n, c, stmt, st) ==
    LET s1 == IF NeedsClone(c) THEN [clone(stmt) EXCEPT !.DB = n] ELSE stmt
        s2 == IF c.Context # "nil" THEN [s1 EXCEPT !.Context = c.Context] ELSE s1
        s3 == IF c.PrepareStmt THEN [s2 EXCEPT !.ConnPool = PreparedPool(s2.ConnPool, st)] ELSE s2
    IN  IF c.SkipHooks THEN [s3 EXCEPT !.SkipHooks = TRUE] ELSE s3

\* Session: txConfig, the copy of *db.Config with the session's settings
SessionConfig(c, cfg, stmt, st) ==
    LET c1 == IF c.PrepareStmt
              THEN [cfg EXCEPT !.ConnPool = PreparedPool(stmt.ConnPool, st),
                               !.PrepareStmt = TRUE]
              ELSE cfg
    IN  IF c.DryRun THEN [c1 EXCEPT !.DryRun = TRUE] ELSE c1

SessionConfigTarget_Shared(n, cfg) == cfg

\* Session: txConfig = *db.Config, tx.Config = &txConfig: the Config that the
\* settings are written to is a copy made for the new handle n, not db.Config
SessionConfigTarget(n, cfg) == n

SessionClone_AlwaysRoot(c) == 1

\* Session: the generation marker of tx
SessionClone(c) == IF c.NewDB THEN 1 ELSE 2

SessionOwnsStatement_NoInitialized(c) == NeedsClone(c)

\* Session: TRUE when the handle returned has a Statement of its own, FALSE
\* when it is db.Statement itself
SessionOwnsStatement(c) == NeedsClone(c) \/ c.Initialized

ShouldClone_OnlyDescendants(cl) == cl > 1

\* getInstance: db.clone > 0, a new handle is made; else db itself is returned
ShouldClone(cl) == cl > 0

\* db.getInstance()
GetInstance(h) ==
    /\ UNCHANGED <<storeVars, pluginVars, txVars, sess>>
    /\ dbs[h].used
    /\ IF ShouldClone(dbs[h].clone)
       THEN LET n == nextHandle IN
            /\ n <= MaxHandles
            /\ dbs' = [dbs EXCEPT ![n] =
                  [used |-> TRUE, Config |-> dbs[h].Config, Error |-> dbs[h].Error,
                   Statement |-> n, clone |-> 0,
                   parent |-> h, via |-> "getInstance", flags |-> NoSession]]
            /\ stmtObjs' = [stmtObjs EXCEPT ![n] =
                  getInstanceStatement(n, dbs[h].clone, stmtObjs[dbs[h].Statement])]
            /\ returned' = returned \cup {n}
       ELSE /\ returned' = returned \cup {h}
            /\ UNCHANGED <<dbs, stmtObjs>>
    /\ UNCHANGED <<configs, cacheStore, nStores, nMut>>

\* Session with v what db.cacheStore.Load(preparedStmtDBKey) has returned: tx
\* starts with db.Statement; the assignments to tx.Statement go to the clone
\* when one was made, to db.Statement otherwise; with PrepareStmt and nothing
\* loaded a PreparedStmtDB is made and stored; with Initialized the handle
\* returned is tx.getInstance()
SessionBody(h, c, v) ==
    /\ UNCHANGED <<storeVars, pluginVars, txVars>>
    /\ dbs[h].used
    /\ LET n == nextHandle
           st == LoadOrNew(v)
           stmt == SessionStatement(n, c, stmtObjs[dbs[h].Statement], st)
           target == IF NeedsClone(c) THEN n ELSE dbs[h].Statement
           written == [stmtObjs EXCEPT ![target] = stmt]
           made == c.PrepareStmt /\ st > nStores
       IN
       /\ n <= MaxHandles
       /\ configs' = [configs EXCEPT ![SessionConfigTarget(n, dbs[h].Config)] =
             SessionConfig(c, configs[dbs[h].Config], stmtObjs[dbs[h].Statement], st)]
       /\ nStores' = (IF made THEN st ELSE nStores)
       /\ cacheStore' = (IF made THEN st ELSE cacheStore)
       /\ dbs' = [dbs EXCEPT ![n] =
             [used |-> TRUE, Config |-> SessionConfigTarget(n, dbs[h].Config),
              Error |-> dbs[h].Error,
              Statement |-> IF SessionOwnsStatement(c) THEN n ELSE dbs[h].Statement,
              clone |-> IF c.Initialized THEN 0 ELSE SessionClone(c),
              parent |-> h, via |-> "Session", flags |-> c]]
       /\ stmtObjs' =
             IF c.Initialized
             THEN [written EXCEPT ![n] = getInstanceStatement(n, SessionClone(c), stmt)]
             ELSE written
       /\ nMut' = nMut
       /\ returned' = returned \cup {n}

\* db.Session(config), in one step
Session(h, c) ==
    /\ SessionBody(h, c, cacheStore)
    /\ UNCHANGED sess

\* the Sessions that ask for prepare mode
PrepareConfigs == {c \in SessionConfigs : c.PrepareStmt}

\* handles that the Session calls under way will make
Pending == {p \in Callers : sess[p].pc = "loaded"}

\* db.Session(config) with PrepareStmt by goroutine p, up to
\* db.cacheStore.Load(preparedStmtDBKey)
SessionLoad(p, h, c) ==
    /\ UNCHANGED <<storeVars, sessionVars, pluginVars, txVars>>
    /\ sess[p].pc = "idle"
    /\ dbs[h].used
    /\ nextHandle + Cardinality(Pending) <= MaxHandles
    /\ sess' = [sess EXCEPT ![p] = [pc |-> "loaded", h |-> h, c |-> c, v |-> cacheStore]]

\* the rest of that Session: NewPreparedStmtDB and cacheStore.Store when
\* nothing was loaded, the wrapper, the handle
SessionStore(p) ==
    /\ sess[p].pc = "loaded"
    /\ SessionBody(sess[p].h, sess[p].c, sess[p].v)
    /\ sess' = [sess EXCEPT ![p] = NoSess]

\* db.Begin(): a handle whose pool is the transaction that the pool of db
\* begins: a PreparedStmtTX of the same store on a PreparedStmtDB
\* (PreparedStmtDB.BeginTx), else the transaction itself
Begin(h) ==
    /\ UNCHANGED <<storeVars, pluginVars, txVars, sess>>
    /\ dbs[h].used
    /\ stmtObjs[dbs[h].Statement].ConnPool.kind \in {"DB", "PreparedStmtDB"}
    /\ LET n == nextHandle
           pool == stmtObjs[dbs[h].Statement].ConnPool
       IN
       /\ n + Cardinality(Pending) <= MaxHandles
       /\ dbs' = [dbs EXCEPT ![n] =
             [used |-> TRUE, Config |-> dbs[h].Config, Error |-> dbs[h].Error,
              Statement |-> n, clone |-> IF dbs[h].clone = 1 THEN 1 ELSE 2,
              parent |-> h, via |-> "Begin", flags |-> NoSession]]
       /\ stmtObjs' = [stmtObjs EXCEPT ![n] =
             [getInstanceStatement(n, dbs[h].clone, stmtObjs[dbs[h].Statement])
                EXCEPT !.ConnPool = IF pool.kind = "PreparedStmtDB"
                                    THEN Pool("PreparedStmtTX", pool.store)
                                    ELSE Pool("Tx", NoStore)]]
       /\ returned' = returned \cup {n}
       /\ UNCHANGED <<configs, cacheStore, nStores, nMut>>

\* db.Set(key, value): getInstance, then Settings.Store on its Statement; a
\* setting is <<scope, name>>: scope 0, and the name is the handle it is stored
\* through
Set(h) ==
    /\ UNCHANGED <<storeVars, pluginVars, txVars, sess>>
    /\ dbs[h].used
    /\ nMut < MaxMutations
    /\ nMut' = nMut + 1
    /\ IF ShouldClone(dbs[h].clone)
       THEN LET n == nextHandle IN
            /\ n <= MaxHandles
            /\ dbs' = [dbs EXCEPT ![n] =
                  [used |-> TRUE, Config |-> dbs[h].Config, Error |-> dbs[h].Error,
                   Statement |-> n, clone |-> 0,
                   parent |-> h, via |-> "getInstance", flags |-> NoSession]]
            /\ stmtObjs' = [stmtObjs EXCEPT ![n] =
                  [getInstanceStatement(n, dbs[h].clone, stmtObjs[dbs[h].Statement])
                      EXCEPT !.Settings = @ \cup {<<0, n>>}]]
            /\ returned' = returned \cup {n}
       ELSE /\ stmtObjs' = [stmtObjs EXCEPT ![dbs[h].Statement].Settings = @ \cup {<<0, h>>}]
            /\ returned' = returned \cup {h}
            /\ UNCHANGED dbs
    /\ UNCHANGED <<configs, cacheStore, nStores>>

\* the request object of handle h is given a clause and its bound argument
\* (Statement.AddClause, Statement.AddVar), both named after the handle they
\* are added through
AddClause(h) ==
    /\ UNCHANGED <<storeVars, pluginVars, txVars, sess>>
    /\ dbs[h].used
    /\ nMut < MaxMutations
    /\ nMut' = nMut + 1
    /\ stmtObjs' = [stmtObjs EXCEPT ![dbs[h].Statement].Clauses = @ \cup {h},
                                    ![dbs[h].Statement].Vars = Append(@, h)]
    /\ UNCHANGED <<dbs, configs, cacheStore, nStores, returned>>

\* db.InstanceSet(key, value): as Set, with the key prefixed by the address of
\* the Statement it is stored in
InstanceSet(h) ==
    /\ UNCHANGED <<storeVars, pluginVars, txVars, sess>>
    /\ dbs[h].used
    /\ nMut < MaxMutations
    /\ nMut' = nMut + 1
    /\ IF ShouldClone(dbs[h].clone)
       THEN LET n == nextHandle IN
            /\ n <= MaxHandles
            /\ dbs' = [dbs EXCEPT ![n] =
                  [used |-> TRUE, Config |-> dbs[h].Config, Error |-> dbs[h].Error,
                   Statement |-> n, clone |-> 0,
                   parent |-> h, via |-> "getInstance", flags |-> NoSession]]
            /\ stmtObjs' = [stmtObjs EXCEPT ![n] =
                  [getInstanceStatement(n, dbs[h].clone, stmtObjs[dbs[h].Statement])
                      EXCEPT !.Settings = @ \cup {<<n, n>>}]]
            /\ returned' = returned \cup {n}
       ELSE /\ stmtObjs' = [stmtObjs EXCEPT ![dbs[h].Statement].Settings =
                                  @ \cup {<<dbs[h].Statement, h>>}]
            /\ returned' = returned \cup {h}
            /\ UNCHANGED dbs
    /\ UNCHANGED <<configs, cacheStore, nStores>>

\* the errors an operation can report; "nil" is no error
Errors == {"nil", "e1", "e2"}

\* ErrorTranslator.Translate of the dialector: the driver's e1 becomes the
\* library's t1, what it does not know is left as it is
Translate(e) == IF e = "e1" THEN "t1" ELSE e

AddErrorResult_Overwrite(cur, e) == <<e>>

\* AddError: db.Error after a non-nil err: err itself when there was none,
\* else fmt.Errorf("%v; %w", db.Error, err): the text of the old one, "; ",
\* the new one
AddErrorResult(cur, e) == IF cur = <<>> THEN <<e>> ELSE cur \o <<e>>

\* entries of all the Error chains of the handles
RECURSIVE SumErrors(_)
SumErrors(hs) ==
    IF hs = {} THEN 0
    ELSE LET h == CHOOSE x \in hs : TRUE IN Len(dbs[h].Error) + SumErrors(hs \ {h})

\* db.AddError(err); its return value is db.Error after the call
AddError(h, e) ==
    /\ UNCHANGED <<storeVars, pluginVars, txVars, sess>>
    /\ dbs[h].used
    /\ SumErrors(Handles) < MaxErrors
    /\ dbs' = [dbs EXCEPT ![h].Error =
          IF e = "nil" THEN @
          ELSE AddErrorResult(@, IF configs[dbs[h].Config].TranslateError
                                 THEN Translate(e) ELSE e)]
    /\ UNCHANGED <<configs, stmtObjs, cacheStore, nStores, nMut, returned>>

\* ------------------------------------------------------------------ plugins
PluginIds == 1..NumPlugins
NoPlugin == 0
PluginNames == {"a", "b"}

\* plugin.Name(): plugins 1, 3, ... are two of one name
Name(i) == IF i % 2 = 1 THEN "a" ELSE "b"

NoUse == [h |-> NoHandle, plugin |-> NoPlugin, result |-> "none"]

\* Open: config.Plugins = map[string]Plugin{}, and no Use so far
PluginInit ==
    /\ Plugins = [r \in Handles |-> [n \in PluginNames |-> NoPlugin]]
    /\ inits = [i \in PluginIds |-> 0]
    /\ useRet = NoUse

Registered_Never(reg, name) == FALSE

\* Use: _, ok := db.Plugins[name]
Registered(reg, name) == Plugins[reg][name] # NoPlugin

\* db.Use(plugin); initErr: what plugin.Initialize(db) returns, "nil" or an error
Use(h, i, initErr) ==
    /\ UNCHANGED <<storeVars, sessionVars, txVars, sess>>
    /\ dbs[h].used
    /\ LET reg == configs[dbs[h].Config].Plugins IN
       IF Registered(reg, Name(i))
       THEN /\ useRet' = [h |-> h, plugin |-> i, result |-> "ErrRegistered"]
            /\ UNCHANGED <<Plugins, inits>>
       ELSE /\ inits[i] < MaxInits
            /\ inits' = [inits EXCEPT ![i] = @ + 1]
            /\ useRet' = [h |-> h, plugin |-> i, result |-> initErr]
            /\ IF initErr # "nil"
               THEN UNCHANGED Plugins
               ELSE Plugins' = [Plugins EXCEPT ![reg][Name(i)] = i]

\* ------------------------------------------------- transaction wrappers
TxIds == 0..MaxTx

NoTx == [made |-> FALSE, Tx |-> "nil", calls |-> 0, PreparedStmtDB |-> NoStore]

NoTxRet == [op |-> "none", tx |-> 0, result |-> "none"]

\* wrapper 0 is a PreparedStmtTX whose Tx field was never set
TxInit ==
    /\ txs = [w \in TxIds |-> IF w = 0 THEN [NoTx EXCEPT !.made = TRUE] ELSE NoTx]
    /\ txRet = NoTxRet

nextTx == Cardinality({w \in TxIds : txs[w].made})

\* what db.ConnPool of the PreparedStmtDB can be
Beginners == {"TxBeginner", "ConnPoolBeginner", "none"}

\* what BeginTx of the pool does: a transaction, an error, or (for a
\* ConnPoolBeginner) a ConnPool that is not a Tx
BeginOutcomes == {"tx", "err", "notTx"}

\* PreparedStmtDB.BeginTx: whether a wrapper is returned, the Tx in it, and
\* the error
BeginTxResult(b, o) ==
    IF b = "TxBeginner"
    THEN IF o = "err" THEN [wrapper |-> TRUE, Tx |-> "typedNil", err |-> "beginErr"]
                      ELSE [wrapper |-> TRUE, Tx |-> "live", err |-> "nil"]
    ELSE IF b = "ConnPoolBeginner"
    THEN IF o = "err" THEN [wrapper |-> FALSE, Tx |-> "nil", err |-> "beginErr"]
         ELSE IF o = "tx" THEN [wrapper |-> TRUE, Tx |-> "live", err |-> "nil"]
         ELSE [wrapper |-> FALSE, Tx |-> "nil", err |-> "ErrInvalidTransaction"]
    ELSE [wrapper |-> FALSE, Tx |-> "nil", err |-> "ErrInvalidTransaction"]

\* BeginTx: &PreparedStmtTX{PreparedStmtDB: db, Tx: tx}, the store of the wrapper
\* is the receiver
TxPreparedStmtDB(db) == db

\* db.BeginTx(ctx, opt) on the PreparedStmtDB of the root; b: what db.ConnPool
\* is, o: what its BeginTx does
BeginTx(b, o) ==
    /\ UNCHANGED <<storeVars, sessionVars, pluginVars, sess>>
    /\ b = "TxBeginner" => o # "notTx"
    /\ LET r == BeginTxResult(b, o)
           w == nextTx
       IN  IF r.wrapper
           THEN /\ w <= MaxTx
                /\ txs' = [txs EXCEPT ![w] =
                      [made |-> TRUE, Tx |-> r.Tx, calls |-> 0,
                       PreparedStmtDB |-> TxPreparedStmtDB(configs[Root].ConnPool.store)]]
                /\ txRet' = [op |-> "BeginTx", tx |-> w, result |-> r.err]
           ELSE /\ txRet' = [op |-> "BeginTx", tx |-> 0, result |-> r.err]
                /\ UNCHANGED txs

Bound_NoReflect(t) == t # "nil"

\* Commit, Rollback: tx.Tx != nil && !reflect.ValueOf(tx.Tx).IsNil()
Bound(t) == t # "nil" /\ t # "typedNil"

\* Commit or Rollback of wrapper w: delegated to tx.Tx when one is bound (a
\* method call on a nil *sql.Tx panics), else ErrInvalidTransaction; r is what
\* the transaction returns
Finish(w, o, r) ==
    /\ UNCHANGED <<storeVars, sessionVars, pluginVars, sess>>
    /\ IF Bound(txs[w].Tx)
       THEN /\ txs[w].calls < MaxTxCalls
            /\ txs' = [txs EXCEPT ![w].calls = @ + 1]
            /\ txRet' = [op |-> o, tx |-> w,
                         result |-> IF txs[w].Tx = "live" THEN r ELSE "panic"]
       ELSE /\ txRet' = [op |-> o, tx |-> w, result |-> "ErrInvalidTransaction"]
            /\ UNCHANGED txs

\* tx.Commit()
Commit(w) ==
    /\ txs[w].made
    /\ \E r \in {"nil", "txErr"} : Finish(w, "Commit", r)

\* tx.Rollback()
Rollback(w) ==
    /\ txs[w].made
    /\ \E r \in {"nil", "txErr"} : Finish(w, "Rollback", r)

\* ------------------------------------------------------------ specifications
\* the prepared pool of a root opened in prepare mode, under concurrent callers
Init == StoreInit /\ PluginInit /\ TxInit /\ Open(TRUE, FALSE)

Next ==
    \/ \E p \in Callers : Call(p)
    \/ \E p \in Callers : RLock(p)
    \/ \E p \in Callers : RCheck(p)
    \/ \E p \in Callers : Lock(p)
    \/ \E p \in Callers : WCheck(p)
    \/ \E p \in Callers : Prepare(p)
    \/ \E p \in Callers : Error(p)
    \/ \E p \in Callers : Run(p)
    \/ \E p \in Callers : Delete(p)
    \/ CloseCall
    \/ CloseLock
    \/ CloseDelete
    \/ \E q \in Templates : Expire(q)

Spec == Init /\ [][Next]_vars

\* handles derived from a root opened with or without prepare mode
SessionInit == StoreInit /\ PluginInit /\ TxInit /\ \E prepareStmt \in BOOLEAN : Open(prepareStmt, FALSE)

SessionNext ==
    \/ \E h \in Handles : GetInstance(h)
    \/ \E h \in Handles : \E c \in SessionConfigs : Session(h, c)
    \/ \E h \in Handles : Set(h)
    \/ \E h \in Handles : AddClause(h)

SessionSpec == SessionInit /\ [][SessionNext]_vars

\* errors recorded on the handles of a root and of the handles derived from it
ErrorInit == StoreInit /\ PluginInit /\ TxInit /\ \E translateError \in BOOLEAN : Open(FALSE, translateError)

ErrorNext ==
    \/ \E h \in Handles : GetInstance(h)
    \/ \E h \in Handles : \E c \in HandleConfigs : Session(h, c)
    \/ \E h \in Handles : Set(h)
    \/ \E h \in Handles : InstanceSet(h)
    \/ \E h \in Handles : \E e \in Errors : AddError(h, e)

ErrorSpec == ErrorInit /\ [][ErrorNext]_vars

\* plugins registered through the handles of one lineage
PluginSpecInit == StoreInit /\ PluginInit /\ TxInit /\ Open(FALSE, FALSE)

PluginNext ==
    \/ \E h \in Handles : \E c \in HandleConfigs : Session(h, c)
    \/ \E h \in Handles : \E i \in PluginIds : \E initErr \in {"nil", "initErr"} :
          Use(h, i, initErr)

PluginSpec == PluginSpecInit /\ [][PluginNext]_vars

\* the transaction wrappers of a prepared pool
TxSpecInit == StoreInit /\ PluginInit /\ TxInit /\ Open(TRUE, FALSE)

TxNext ==
    \/ \E b \in Beginners : \E o \in BeginOutcomes : BeginTx(b, o)
    \/ \E w \in TxIds : Commit(w)
    \/ \E w \in TxIds : Rollback(w)

TxSpec == TxSpecInit /\ [][TxNext]_vars

\* goroutines that derive handles in prepare mode from the handles of a root
\* opened with or without it
PrepareInit ==
    StoreInit /\ PluginInit /\ TxInit /\ \E prepareStmt \in BOOLEAN : Open(prepareStmt, FALSE)

PrepareNext ==
    \/ \E p \in Callers : \E h \in Handles : \E c \in PrepareConfigs : SessionLoad(p, h, c)
    \/ \E p \in Callers : SessionStore(p)
    \/ \E h \in Handles : Begin(h)

PrepareSpec == PrepareInit /\ [][PrepareNext]_vars

\* ------------------------------------------------------- statement store: claims
Range(f) == {f[x] : x \in DOMAIN f}

\* the entries ever created for template q
Compiled(q) == {i \in StmtIds : heap[i].state # "none" /\ heap[i].query = q}

\* the callers that prepare has handed a statement
Holding(q) == {p \in Callers : query[p] = q /\ pc[p] \in {"Prepare", "Error", "Run", "Delete"}}

\* template q was only requested under one transaction scope, and no entry of
\* it was removed from the store
OneScopeNoEviction(q) ==
    /\ Compiled(q) \cap evicted = {}
    /\ \A i, j \in Compiled(q) : heap[i].Transaction = heap[j].Transaction
    /\ \A p \in Callers : \A i \in Compiled(q) :
          (pc[p] # "idle" /\ query[p] = q) => isTransaction(p) = heap[i].Transaction

\* C1: callers that request the same template under the same transaction scope,
\* with no entry of it removed from the store, cause one compilation of it
\* however they interleave, and every one of them is handed that one entry.
C1_OneCompilation ==
    \A q \in Templates :
        OneScopeNoEviction(q) =>
            /\ Cardinality(Compiled(q)) <= 1
            /\ \A p \in Holding(q) : Compiled(q) = {got[p]}

\* two callers of one template and scope both missed under the read lock; one
\* has created the entry, the other holds the write lock for its double check
C1_Witness ==
    \E p1, p2 \in Callers :
        /\ p1 # p2
        /\ query[p1] = query[p2]
        /\ wrapper[p1] = wrapper[p2]
        /\ OneScopeNoEviction(query[p1])
        /\ pc[p1] = "WCheck"
        /\ pc[p2] \in {"Prepare", "Run"}
        /\ Stmts[query[p1]] = got[p2]
        /\ got[p2] # NoStmt

\* caller p makes one of the two lookups of prepare in this step
Lookup(p) == pc[p] \in {"RCheck", "WCheck"} /\ pc'[p] # pc[p]

\* C2: a lookup of a template whose entry was compiled successfully, is still
\* in the store and carries the caller's transaction scope returns that entry
\* and compiles nothing, whatever was done on other templates.
C2_CachedReuse ==
    [][\A p \in Callers :
          (/\ Lookup(p)
           /\ Stmts[query[p]] # NoStmt
           /\ heap[Stmts[query[p]]].state = "ok"
           /\ heap[Stmts[query[p]]].Transaction = isTransaction(p))
          => (/\ got'[p] = Stmts[query[p]]
              /\ pc'[p] = "Error"
              /\ heap' = heap
              /\ Stmts' = Stmts)]_vars

\* a transaction-scoped caller holds, by a hit, the successfully compiled
\* transaction-scoped entry of its template while another template is cached too
C2_Witness ==
    \E p \in Callers :
        /\ pc[p] = "Error"
        /\ isTransaction(p)
        /\ got[p] = Stmts[query[p]]
        /\ heap[got[p]].state = "ok"
        /\ heap[got[p]].Transaction
        /\ \E q \in Templates : q # query[p] /\ Stmts[q] # NoStmt

\* C3 as stated: a caller inside a transaction that finds the entry compiled
\* outside a transaction misses and compiles a statement of its own.
C3_Original ==
    [][\A p \in Callers :
          (/\ pc[p] = "RCheck" /\ pc'[p] # pc[p]
           /\ isTransaction(p)
           /\ Stmts[query[p]] # NoStmt
           /\ ~heap[Stmts[query[p]]].Transaction)
          => pc'[p] = "Lock"]_vars

\* C3 (amended): a lookup that finds an entry compiled outside a transaction
\* returns that entry to callers inside and outside a transaction alike; it
\* compiles nothing and the entry stays in the store.
C3_NonTxEntryServesBoth ==
    [][\A p \in Callers :
          (/\ Lookup(p)
           /\ Stmts[query[p]] # NoStmt
           /\ ~heap[Stmts[query[p]]].Transaction)
          => (/\ got'[p] = Stmts[query[p]]
              /\ heap' = heap
              /\ Stmts' = Stmts)]_vars

\* a caller inside a transaction and a caller outside one both hold, by a hit,
\* the same entry compiled outside a transaction, which is still in the store
C3_Witness ==
    \E p1, p2 \in Callers :
        /\ pc[p1] = "Error" /\ isTransaction(p1)
        /\ pc[p2] = "Error" /\ ~isTransaction(p2)
        /\ got[p1] = got[p2]
        /\ ~heap[got[p1]].Transaction
        /\ Stmts[query[p1]] = got[p1]

\* C4: when ExecContext or QueryContext returns ErrBadConn, the template has no
\* entry in the store, and a statement that a returned call reported broken is
\* never in the store again: the next call compiles.
C4_BadConnEvicts ==
    /\ (ret.op \in {"Exec", "Query"} /\ ret.result = "ErrBadConn")
          => Stmts[ret.query] = NoStmt
    /\ \A q \in Templates : Stmts[q] \notin stale

\* a statement was reported broken and evicted, and a new statement of the
\* same template has been compiled since
C4_Witness ==
    \E i \in stale \cap evicted : \E q \in Templates :
        /\ Stmts[q] # NoStmt
        /\ heap[Stmts[q]].query = heap[i].query
        /\ heap[i].state = "ok"

\* C5 as stated: when QueryRowContext returns a row whose execution hit
\* ErrBadConn, the template has no entry in the store.
C5_QueryRowEvicts ==
    (ret.op = "QueryRow" /\ ret.result = "ErrBadConn") => Stmts[ret.query] = NoStmt

\* C6 as stated: a call that was handed an entry carrying a compile error
\* returns that compile error and executes nothing.
C6_CompileErrorSurfaced ==
    (ret.stmt # NoStmt /\ heap[ret.stmt].state = "err")
        => (ret.result = "compileErr" /\ ret.nExec = 0)

\* C7: when ExecContext or QueryContext returns an error of the execution that
\* is not ErrBadConn, that step leaves the store as it was, and the statement
\* was executed once.
C7_OtherErrorPassesThrough ==
    [][(ret' # ret /\ ret'.op \in {"Exec", "Query"} /\ ret'.result = "ErrOther")
          => (/\ Stmts' = Stmts
              /\ evicted' = evicted
              /\ ret'.nExec = 1)]_vars

\* QueryContext on the transaction wrapper returned an error that is not
\* ErrBadConn and the entry it executed is still the template's entry
C7_Witness ==
    /\ ret.op = "Query"
    /\ ret.wrapper = "TX"
    /\ ret.result = "ErrOther"
    /\ Stmts[ret.query] = ret.stmt

\* ---------------------------------------------------- sessions and clones: claims
Used == {h \in Handles : dbs[h].used}

\* the request object of handle h
Req(h) == stmtObjs[dbs[h].Statement]

\* the handles derived from the same parent as h
Siblings(h) == {g \in Used \ {h} : dbs[g].parent = dbs[h].parent}

\* one of Context, PrepareStmt, SkipHooks is set
Isolating(f) == f.Context # "nil" \/ f.PrepareStmt \/ f.SkipHooks

\* the request object of h was referenced by no handle that existed before h
OwnRequest(h) == \A g \in Used : g < h => dbs[g].Statement # dbs[h].Statement

\* C8 as stated: a handle returned by Session with none of Context,
\* PrepareStmt, SkipHooks has the parent's request object; with one of them it
\* has a request object of its own, whose back-reference is the new handle.
C8_Original ==
    \A h \in Used :
        dbs[h].via = "Session" =>
            IF Isolating(dbs[h].flags)
            THEN OwnRequest(h) /\ Req(h).DB = h
            ELSE dbs[h].Statement = dbs[dbs[h].parent].Statement

\* where the request object of a handle returned by Session is
C8_Sharing ==
    \A h \in Used :
        dbs[h].via = "Session" =>
            /\ (~Isolating(dbs[h].flags) /\ ~dbs[h].flags.Initialized)
                  => dbs[h].Statement = dbs[dbs[h].parent].Statement
            /\ Isolating(dbs[h].flags) => (OwnRequest(h) /\ Req(h).DB = h)

\* C8 (amended): a handle returned by Session with none of Context,
\* PrepareStmt, SkipHooks, Initialized has the parent's request object, and a
\* change of it is a change of the parent's; with one of Context, PrepareStmt,
\* SkipHooks it has a request object of its own, whose back-reference is the
\* new handle, and a change of the one or the other leaves the other as it was.
C8_SessionSharesOrCopies ==
    [][/\ C8_Sharing'
       /\ \A h \in Used :
            (dbs[h].via = "Session" /\ (Req(h)' # Req(h) \/ Req(dbs[h].parent)' # Req(dbs[h].parent)))
            => /\ (~Isolating(dbs[h].flags) /\ ~dbs[h].flags.Initialized)
                     => Req(h)' = Req(dbs[h].parent)'
               /\ Isolating(dbs[h].flags)
                     => (Req(h)' = Req(h) \/ Req(dbs[h].parent)' = Req(dbs[h].parent))]_vars

\* a handle returned by Session without any of the flags and one returned by
\* Session with SkipHooks, both of the root, after a clause was added through
\* the first: the root sees it, the second does not
C8_Witness ==
    \E h, g \in Used :
        /\ dbs[h].via = "Session" /\ dbs[h].parent = Root
        /\ ~Isolating(dbs[h].flags) /\ ~dbs[h].flags.Initialized
        /\ dbs[g].via = "Session" /\ dbs[g].parent = Root
        /\ dbs[g].flags.SkipHooks
        /\ h \in Req(Root).Clauses
        /\ h \notin Req(g).Clauses

\* C9 as stated: a step that changes the request object of a derived handle
\* leaves the request object of its parent and of each of its siblings as it was.
C9_Original ==
    [][\A h \in Used :
          (dbs[h].parent # NoHandle /\ Req(h)' # Req(h))
          => /\ Req(dbs[h].parent)' = Req(dbs[h].parent)
             /\ \A g \in Siblings(h) : Req(g)' = Req(g)]_vars

\* h was derived by getInstance, or by Session with one of Context,
\* PrepareStmt, SkipHooks, Initialized
DerivedWithOwnRequest(h) ==
    \/ dbs[h].via = "getInstance"
    \/ dbs[h].via = "Session" /\ (Isolating(dbs[h].flags) \/ dbs[h].flags.Initialized)

\* C9 (amended): a step that changes the request object of a handle derived by
\* getInstance, or by Session with one of Context, PrepareStmt, SkipHooks,
\* Initialized, leaves the request object of its parent and of each of its
\* siblings as it was.
C9_OwnRequestIsolated ==
    [][\A h \in Used :
          (DerivedWithOwnRequest(h) /\ Req(h)' # Req(h))
          => /\ Req(dbs[h].parent)' = Req(dbs[h].parent)
             /\ \A g \in Siblings(h) : Req(g)' = Req(g)]_vars

\* a handle derived by Session with Initialized alone has a clause of its own that its parent and its sibling lack
C9_Witness ==
    \E h, g \in Used :
        /\ dbs[h].via = "Session"
        /\ dbs[h].flags.Initialized /\ ~Isolating(dbs[h].flags)
        /\ g \in Siblings(h)
        /\ h \in Req(h).Clauses
        /\ h \notin Req(dbs[h].parent).Clauses
        /\ h \notin Req(g).Clauses

\* the handles that getInstance derived from the root
FromRoot == {h \in Used : dbs[h].via = "getInstance" /\ dbs[h].parent = Root}

\* the handles that have the request object of h
Aliases(h) == {g \in Used : dbs[g].Statement = dbs[h].Statement}

\* C10: two handles derived from the root by getInstance have different
\* request objects; the clauses, bound arguments and settings of each are only
\* what was added through it, in every interleaving of the derivations and the
\* additions, and both have the connection pool of the root's request object.
C10_NoCrossTalk ==
    \A a \in FromRoot :
        /\ \A b \in FromRoot \ {a} : dbs[a].Statement # dbs[b].Statement
        /\ Req(a).Clauses \subseteq Aliases(a)
        /\ Range(Req(a).Vars) \subseteq Aliases(a)
        /\ {s[2] : s \in Req(a).Settings} \subseteq Aliases(a)
        /\ Req(a).ConnPool = Req(Root).ConnPool

\* two handles derived from the root have each added a clause and its argument
C10_Witness ==
    \E a, b \in FromRoot :
        /\ a # b
        /\ Req(a).Clauses = {a} /\ Req(a).Vars = <<a>>
        /\ Req(b).Clauses = {b} /\ Req(b).Vars = <<b>>

\* C11 as stated: a handle returned by Session without NewDB has generation
\* marker 2, Initialized or not.
C11_Original ==
    \A h \in Used :
        (dbs[h].via = "Session" /\ ~dbs[h].flags.NewDB) => dbs[h].clone = 2

\* C11 (amended): a handle returned by Session without Initialized has
\* generation marker 2 when NewDB is not set and 1 when it is; with Initialized
\* the handle returned is the one getInstance made, with generation marker 0.
C11_SessionGeneration ==
    \A h \in Used :
        dbs[h].via = "Session" =>
            dbs[h].clone = IF dbs[h].flags.Initialized THEN 0
                           ELSE IF dbs[h].flags.NewDB THEN 1 ELSE 2

\* Session without NewDB has returned a handle of generation 2, and with
\* Initialized one of generation 0
C11_Witness ==
    \E h, g \in Used :
        /\ dbs[h].via = "Session" /\ ~dbs[h].flags.NewDB /\ ~dbs[h].flags.Initialized
        /\ dbs[h].clone = 2
        /\ dbs[g].via = "Session" /\ ~dbs[g].flags.NewDB /\ dbs[g].flags.Initialized
        /\ dbs[g].clone = 0

\* ------------------------------------------------------------- errors: claims
\* C13 as stated: AddError(nil) leaves Error as it was; the first non-nil
\* error becomes the Error; a further one gives the previous Error followed by
\* the new error.
C13_Original ==
    [][\A h \in Handles : \A e \in Errors :
          AddError(h, e) =>
              dbs'[h].Error = IF e = "nil" THEN dbs[h].Error
                              ELSE IF dbs[h].Error = <<>> THEN <<e>>
                              ELSE dbs[h].Error \o <<e>>]_vars

\* what AddError records for err: its translation when the configuration
\* translates errors
Recorded(h, e) == IF configs[dbs[h].Config].TranslateError THEN Translate(e) ELSE e

\* C13 (amended): AddError(nil) leaves Error as it was; the first non-nil
\* error, translated when the configuration translates errors, becomes the
\* Error; a further one gives the previous Error followed by the new error,
\* translated likewise: nothing recorded before is lost or reordered.
C13_Accumulates ==
    [][\A h \in Handles : \A e \in Errors :
          AddError(h, e) =>
              dbs'[h].Error = IF e = "nil" THEN dbs[h].Error
                              ELSE IF dbs[h].Error = <<>> THEN <<Recorded(h, e)>>
                              ELSE dbs[h].Error \o <<Recorded(h, e)>>]_vars

\* three errors were added to one handle, the first one translated
C13_Witness ==
    \E h \in Used : dbs[h].Error = <<"t1", "e2", "t1">>

\* C18: no step that changes a handle other than the root changes the root's
\* Error; the root is never the handle that getInstance, Session, Set or
\* InstanceSet return, and its generation marker stays 1.
C18_RootKeepsError ==
    [][/\ Root \notin returned'
       /\ dbs'[Root].clone = 1
       /\ (\E h \in Handles \ {Root} : dbs'[h] # dbs[h])
             => dbs'[Root].Error = dbs[Root].Error]_vars

\* handles returned by getInstance and by Session on the root carry errors
\* of their own, the root has none
C18_Witness ==
    \E h, g \in returned :
        /\ dbs[h].via = "getInstance" /\ dbs[h].parent = Root
        /\ dbs[g].via = "Session" /\ dbs[g].parent = Root
        /\ dbs[h].Error # <<>> /\ dbs[g].Error # <<>>
        /\ dbs[Root].Error = <<>>

\* ----------------------------------------------------------- context: claims
\* the context of every derived handle: the one its Session attached, else
\* the one of the handle it was derived from
ContextInherited ==
    \A h \in Used \ {Root} :
        Req(h).Context =
            IF dbs[h].via = "Session" /\ dbs[h].flags.Context # "nil"
            THEN dbs[h].flags.Context
            ELSE Req(dbs[h].parent).Context

\* C17: the context attached by Session{Context: c} is the context of the
\* handle returned and of every handle derived from it by getInstance or by
\* Session without a Context, whatever the generation marker of the handle
\* derived from; no step changes the context of a handle that exists, so the
\* attachment leaves the parent's context as it was.
C17_ContextFlows ==
    [][/\ ContextInherited'
       /\ \A h \in Used : Req(h)'.Context = Req(h).Context]_vars

\* a context attached to a handle derived from the root, and a handle derived
\* from that one by getInstance that has it, while the root has its own
C17_Witness ==
    \E h, g \in Used :
        /\ dbs[h].via = "Session" /\ dbs[h].parent = Root
        /\ dbs[h].flags.Context = "ctx1" /\ Req(h).Context = "ctx1"
        /\ dbs[g].via = "getInstance" /\ dbs[g].parent = h
        /\ Req(g).Context = "ctx1"
        /\ Req(Root).Context = "Background"

\* ------------------------------------------------ derivation from a root: claims
\* this step makes handle h, from a handle of generation 1
CreatedFromRoot(h) ==
    /\ ~dbs[h].used
    /\ dbs'[h].used
    /\ dbs[dbs'[h].parent].clone = 1

\* the request object of the new handle h is not its parent's; it has the
\* parent's pool and context, no clause and no bound variable
FreshRequest(h) ==
    LET P == dbs'[h].parent
        R == stmtObjs'[dbs'[h].Statement]
    IN  /\ dbs'[h].Statement # dbs[P].Statement
        /\ R.DB = h
        /\ R.ConnPool = Req(P).ConnPool
        /\ R.Context = Req(P).Context
        /\ R.Clauses = {}
        /\ R.Vars = <<>>

\* C20 as stated: every handle derived from a handle of generation 1, by
\* getInstance or by Session with any flags, gets a new request object with
\* the parent's pool and context and with no clause and no bound variable.
C20_Original ==
    [][\A h \in Handles : CreatedFromRoot(h) => FreshRequest(h)]_vars

\* C20 (amended): a handle that getInstance derives from a handle of
\* generation 1 gets a new request object with the parent's pool and context
\* and with no clause and no bound variable; so does Session with NewDB and
\* Initialized, but for the pool and context that the Session itself sets.
\* Session without Initialized gives the parent's request object itself when
\* none of Context, PrepareStmt, SkipHooks is set, and a copy that holds the
\* parent's clauses and bound variables when one is; Session with Initialized
\* and without NewDB gives such a copy too.
C20_DerivedFromRoot ==
    [][\A h \in Handles :
          CreatedFromRoot(h) =>
              LET P == dbs'[h].parent
                  f == dbs'[h].flags
                  R == stmtObjs'[dbs'[h].Statement]
                  own == dbs'[h].Statement # dbs[P].Statement /\ R.DB = h
              IN  /\ dbs'[h].via = "getInstance" => FreshRequest(h)
                  /\ (dbs'[h].via = "Session" /\ f.Initialized /\ f.NewDB)
                        => (own /\ R.Clauses = {} /\ R.Vars = <<>>)
                  /\ (dbs'[h].via = "Session" /\ f.Initialized /\ ~f.NewDB)
                        => (own /\ R.Clauses = Req(P).Clauses /\ R.Vars = Req(P).Vars)
                  /\ (dbs'[h].via = "Session" /\ ~f.Initialized /\ Isolating(f))
                        => (own /\ R.Clauses = Req(P).Clauses /\ R.Vars = Req(P).Vars)
                  /\ (dbs'[h].via = "Session" /\ ~f.Initialized /\ ~Isolating(f))
                        => dbs'[h].Statement = dbs[P].Statement]_vars

\* the root's request object holds a clause and its argument; a handle that
\* getInstance derived from the root has none, one that Session with SkipHooks
\* derived has them
C20_Witness ==
    \E h, g \in Used :
        /\ Req(Root).Clauses = {Root} /\ Req(Root).Vars = <<Root>>
        /\ dbs[h].via = "getInstance" /\ dbs[h].parent = Root
        /\ Req(h).Clauses = {} /\ Req(h).Vars = <<>>
        /\ dbs[g].via = "Session" /\ dbs[g].parent = Root /\ dbs[g].flags.SkipHooks
        /\ ~dbs[g].flags.Initialized
        /\ Req(g).Clauses = {Root} /\ Req(g).Vars = <<Root>>

\* ------------------------------------------------- Close and the lock: claims
\* C16: when Close returns the store holds no entry; no statement that was in
\* the store when a Close deleted its keys is in the store afterwards; and a
\* lookup of prepare that finds no entry of its template returns none: the
\* caller goes on to the write lock or compiles a statement that did not exist.
C16_CloseEmptiesStore ==
    [][/\ (closer = "locked" /\ closer' = "idle")
             => \A q \in Templates : Stmts'[q] = NoStmt
       /\ \A q \in Templates : Stmts'[q] \notin closed'
       /\ \A p \in Callers :
             (Lookup(p) /\ Stmts[query[p]] = NoStmt)
             => \/ pc'[p] = "Lock"
                \/ /\ pc'[p] = "Prepare"
                   /\ heap[got'[p]].state = "none"
                   /\ got'[p] \notin closed']_vars

\* after a Close that deleted a compiled statement of a template, a new
\* statement of the same template is in the store
C16_Witness ==
    \E q \in Templates : \E i \in closed :
        /\ heap[i].query = q /\ heap[i].state = "ok"
        /\ closer = "idle"
        /\ Stmts[q] # NoStmt /\ Stmts[q] # i
        /\ heap[Stmts[q]].state = "ok"

\* C19 as stated: the insert done on compile, the delete done on eviction in
\* ExecContext/QueryContext and the deletes done by Close each happen while
\* the one who does it holds the lock in write mode.
C19_MutationUnderWriteLock ==
    [][/\ \A p \in Callers :
             (pc[p] = "WCheck" /\ pc'[p] = "Prepare") => Mux.writer = p
       /\ \A p \in Callers :
             (pc[p] = "Delete" /\ pc'[p] # "Delete") => Mux.writer = p
       /\ (closer = "locked" /\ closer' = "idle") => Mux.writer = -1]_vars

\* ----------------------------------------------------------- plugins: claims
\* this step is a return of Use
UseReturns == useRet' # NoUse /\ (useRet' # useRet \/ inits' # inits)

\* the registry of the handle that the Use of this step was called on
UseRegistry == configs[dbs[useRet'.h].Config].Plugins

\* every handle of the lineage has the registry of the root
OneRegistry ==
    \A h \in Used : configs[dbs[h].Config].Plugins = configs[dbs[Root].Config].Plugins

\* the registry reg has a plugin of this name
HasName(reg, name) == Plugins[reg][name] # NoPlugin

\* the Use of this step found the name registered: ErrRegistered, no
\* Initialize, the registrations as they were
UseOfRegisteredName ==
    HasName(UseRegistry, Name(useRet'.plugin))
    => /\ useRet'.result = "ErrRegistered"
       /\ inits' = inits
       /\ Plugins' = Plugins

\* C12 as stated: Use of a registered name returns ErrRegistered, initializes
\* nothing and leaves the registrations as they were; Use of a name not
\* registered succeeds; every registered plugin has had one Initialize.
C12_Original ==
    [][UseReturns =>
          /\ OneRegistry
          /\ UseOfRegisteredName
          /\ ~HasName(UseRegistry, Name(useRet'.plugin))
                => /\ useRet'.result = "nil"
                   /\ Plugins' = [Plugins EXCEPT
                                    ![UseRegistry][Name(useRet'.plugin)] = useRet'.plugin]
          /\ \A i \in PluginIds :
                Plugins'[UseRegistry][Name(i)] = i => inits'[i] = 1]_vars

\* C12 (amended): Use of a registered name returns ErrRegistered, initializes
\* nothing and leaves the registrations as they were; Use of a name not
\* registered calls Initialize once: when that returns nil the plugin is
\* registered under its name and Use returns nil, when it returns an error Use
\* returns that error and registers nothing; every registered plugin has been
\* initialized, and the registry is one for all the handles of the lineage.
C12_UseOncePerName ==
    [][UseReturns =>
          /\ OneRegistry
          /\ UseOfRegisteredName
          /\ ~HasName(UseRegistry, Name(useRet'.plugin))
                => /\ useRet'.result \in {"nil", "initErr"}
                   /\ inits' = [inits EXCEPT ![useRet'.plugin] = @ + 1]
                   /\ Plugins' = IF useRet'.result = "nil"
                                 THEN [Plugins EXCEPT
                                    ![UseRegistry][Name(useRet'.plugin)] = useRet'.plugin]
                                 ELSE Plugins
          /\ \A i \in PluginIds :
                Plugins'[UseRegistry][Name(i)] = i => inits'[i] >= 1]_vars

\* two plugins of different names are registered, each initialized once, and
\* the Use of a second plugin of a registered name, on a handle derived by
\* Session, has returned ErrRegistered without initializing it
C12_Witness ==
    /\ Plugins[Root]["a"] = 1 /\ Plugins[Root]["b"] = 2
    /\ inits[1] = 1 /\ inits[2] = 1 /\ inits[3] = 0
    /\ useRet.h # Root /\ dbs[useRet.h].via = "Session"
    /\ useRet.plugin = 3 /\ useRet.result = "ErrRegistered"

PreparedBySession(h) == dbs[h].via = "Session" /\ dbs[h].flags.PrepareStmt

\* C14 as stated: all the handles returned by Session with PrepareStmt, on
\* handles of one root, are bound to one and the same store, the one kept in
\* the root's cache, also when the derivations interleave; on a handle whose
\* pool is a transaction the wrapper is a PreparedStmtTX of that store.
C14_OneStatementStore ==
    \A h \in Used :
        PreparedBySession(h) =>
            /\ \A g \in Used :
                  PreparedBySession(g) => Req(g).ConnPool.store = Req(h).ConnPool.store
            /\ Req(h).ConnPool.store = cacheStore
            /\ Req(h).ConnPool.kind =
                  IF Req(dbs[h].parent).ConnPool.kind \in {"Tx", "PreparedStmtTX"}
                  THEN "PreparedStmtTX" ELSE "PreparedStmtDB"

\* ------------------------------------------- the two wrappers of one store
\* the PreparedStmtTX wrappers that hold a transaction
LiveTx == {t \in TxIds : txs[t].made /\ txs[t].Tx = "live"}

\* ExecContext / QueryContext / QueryRowContext on the PreparedStmtDB
CallDB(p) ==
    /\ pc[p] = "idle"
    /\ Call(p)
    /\ wrapper'[p] = "DB"

\* ExecContext / QueryContext / QueryRowContext on the PreparedStmtTX t that
\* BeginTx has returned
CallTX(p, t) ==
    /\ t \in LiveTx
    /\ Call(p)
    /\ wrapper'[p] = "TX"

\* the prepared pool of a root opened in prepare mode, the transactions begun
\* on it and the calls made on the pool and on the transactions
WrapperInit == StoreInit /\ PluginInit /\ TxInit /\ Open(TRUE, FALSE)

WrapperNext ==
    \/ \E b \in Beginners : \E o \in BeginOutcomes : BeginTx(b, o)
    \/ \E p \in Callers : CallDB(p)
    \/ \E p \in Callers : \E t \in TxIds : CallTX(p, t)
    \/ \E p \in Callers : RLock(p)
    \/ \E p \in Callers : RCheck(p)
    \/ \E p \in Callers : Lock(p)
    \/ \E p \in Callers : WCheck(p)
    \/ \E p \in Callers : Prepare(p)
    \/ \E p \in Callers : Error(p)
    \/ \E p \in Callers : Run(p)
    \/ \E p \in Callers : Delete(p)

WrapperSpec == WrapperInit /\ [][WrapperNext]_vars

\* ------------------------------------------------ the two wrappers: claims
\* caller p compiles in this step: Stmts.New makes the entry that p is handed
Compiles(p) == pc[p] = "WCheck" /\ pc'[p] = "Prepare"

\* C21: a statement compiled by a call on the pool wrapper is requested with
\* isTransaction false against the pool's connection and executed by the
\* statement itself; one compiled by a call on the transaction wrapper is
\* requested with isTransaction true against the transaction, and every
\* statement that a call on the transaction wrapper executes goes through the
\* transaction; a successful BeginTx returns a PreparedStmtTX with a live
\* transaction whose store is the store of the pool wrapper, and makes no store.
C21_WrapperRouting ==
    [][/\ \A p \in Callers :
             Compiles(p) =>
                 /\ heap[got'[p]].state = "none"
                 /\ heap'[got'[p]].query = query[p]
                 /\ Stmts'[query[p]] = got'[p]
                 /\ heap'[got'[p]].Transaction = (wrapper[p] = "TX")
                 /\ heap'[got'[p]].conn = IF wrapper[p] = "TX" THEN "Tx" ELSE "ConnPool"
       /\ ret'.nExec > 0 =>
             ret'.via = IF ret'.wrapper = "TX" THEN "Tx.StmtContext" ELSE "Stmt"
       /\ (txRet'.op = "BeginTx" /\ txRet'.result = "nil" /\ txs' # txs)
             => /\ ~txs[txRet'.tx].made
                /\ txs'[txRet'.tx].made
                /\ txs'[txRet'.tx].Tx = "live"
                /\ txs'[txRet'.tx].PreparedStmtDB = configs[Root].ConnPool.store
                /\ txs'[txRet'.tx].PreparedStmtDB = cacheStore
                /\ nStores' = nStores
                /\ cacheStore' = cacheStore]_vars

\* after a successful BeginTx, a call on the transaction wrapper has compiled
\* and executed a statement of one template and a call on the pool wrapper has
\* compiled a statement of another; both are in the one store
C21_Witness ==
    \E t \in LiveTx : \E q1, q2 \in Templates :
        /\ txs[t].PreparedStmtDB = cacheStore
        /\ Stmts[q1] # NoStmt /\ heap[Stmts[q1]].Transaction
        /\ heap[Stmts[q1]].conn = "Tx" /\ heap[Stmts[q1]].state = "ok"
        /\ Stmts[q2] # NoStmt /\ ~heap[Stmts[q2]].Transaction
        /\ heap[Stmts[q2]].conn = "ConnPool" /\ heap[Stmts[q2]].state = "ok"
        /\ ret.wrapper = "TX" /\ ret.stmt = Stmts[q1] /\ ret.via = "Tx.StmtContext"

\* ------------------------------------------- transaction scope of entries: claims
\* the callers on the pool wrapper that prepare has handed a statement
HoldingOutsideTx == {p \in Callers : pc[p] \in {"Prepare", "Error", "Run", "Delete"}
                                     /\ wrapper[p] = "DB"}

\* C22: however the calls on the pool wrapper and on the transaction wrapper
\* interleave, the statement that prepare hands a caller outside a transaction
\* is never tagged transaction-scoped, and the tag of an entry never changes;
\* a lookup by such a caller that finds a transaction-scoped entry under its
\* template does not return it: under the read lock the caller goes on to the
\* write lock, under the write lock it compiles a statement tagged
\* non-transactional, which takes the template's place in the store.
C22_NoTxStatementOutsideTx ==
    [][/\ \A p \in HoldingOutsideTx' : ~heap'[got'[p]].Transaction
       /\ \A i \in StmtIds :
             heap[i].state # "none" => heap'[i].Transaction = heap[i].Transaction
       /\ \A p \in Callers :
             (/\ Lookup(p)
              /\ wrapper[p] = "DB"
              /\ Stmts[query[p]] # NoStmt
              /\ heap[Stmts[query[p]]].Transaction)
             => IF pc[p] = "RCheck"
                THEN pc'[p] = "Lock" /\ Stmts' = Stmts /\ heap' = heap
                ELSE /\ pc'[p] = "Prepare"
                     /\ heap[got'[p]].state = "none"
                     /\ ~heap'[got'[p]].Transaction
                     /\ heap'[got'[p]].query = query[p]
                     /\ Stmts'[query[p]] = got'[p]]_vars

\* a caller outside a transaction found the transaction-scoped entry of its
\* template in the store under both locks and holds the statement it compiled
\* in its place, tagged non-transactional
C22_Witness ==
    \E p \in HoldingOutsideTx : \E i \in StmtIds :
        /\ heap[i].state = "ok" /\ heap[i].Transaction
        /\ heap[i].query = query[p]
        /\ i \notin evicted
        /\ i # got[p]
        /\ Stmts[query[p]] = got[p]
        /\ ~heap[got[p]].Transaction

\* ------------------------------------------------------- fair scheduling
\* every goroutine that can take a step takes one, and sync.RWMutex lets no
\* goroutine that waits for it starve; that a call or a Close is made at all is
\* up to the program
Fairness ==
    /\ \A p \in Callers :
          /\ SF_vars(RLock(p) \/ Lock(p))
          /\ WF_vars(RCheck(p) \/ WCheck(p) \/ Prepare(p) \/ Error(p) \/ Run(p) \/ Delete(p))
    /\ SF_vars(CloseLock)
    /\ WF_vars(CloseDelete)

\* a call by a goroutine of the program under fair scheduling: the first
\* goroutine sends one template, the others any, on either wrapper
FairCall(p) ==
    /\ pc[p] = "idle"
    /\ Call(p)
    /\ p = 1 => query'[p] = 1

\* the calls and the Close calls of that program; what the store drops by its
\* own policy takes no lock and is left out
FairNext ==
    \/ \E p \in Callers : FairCall(p)
    \/ \E p \in Callers : RLock(p)
    \/ \E p \in Callers : RCheck(p)
    \/ \E p \in Callers : Lock(p)
    \/ \E p \in Callers : WCheck(p)
    \/ \E p \in Callers : Prepare(p)
    \/ \E p \in Callers : Error(p)
    \/ \E p \in Callers : Run(p)
    \/ \E p \in Callers : Delete(p)
    \/ CloseCall
    \/ CloseLock
    \/ CloseDelete

FairSpec == Init /\ [][FairNext]_vars /\ Fairness

\* ------------------------------------------------------- termination: claims
\* the callers that hold no lock by their position: those not between RLock
\* and RUnlock and not between Lock and Unlock
Unlocked == {p \in Callers : pc[p] \notin {"RCheck", "WCheck"}}

FirstError(h) ==
    /\ dbs[h].Error = <<>>
    /\ AddError(h, "e2")

FrameInit ==
    StoreInit /\ PluginInit /\ TxInit /\ \E prepareStmt \in BOOLEAN : Open(prepareStmt, FALSE)

FrameNext ==
    \/ \E h \in Handles : \E c \in AllSessionConfigs : Session(h, c)
    \/ \E h \in Handles : GetInstance(h)
    \/ \E h \in Handles : FirstError(h)

FrameSpec == FrameInit /\ [][FrameNext]_vars

\* ----------------------------------------------------- frame of Session: claims
\* this step is a Session that returns handle n
SessionReturns(n) == ~dbs[n].used /\ dbs'[n].used /\ dbs'[n].via = "Session"

\* C24: a Session, whatever its fields, changes no handle that exists: the
\* parent's Config (PrepareStmt, DryRun, connection pool and the other options),
\* its request object (context, connection pool, SkipHooks and the rest), its
\* Error and its generation marker are what they were, and so are those of
\* every other handle; of what the lineage shares it changes nothing but the
\* cache, where a Session with PrepareStmt that finds no prepared pool stores
\* the one it makes; the plugins and the statement store stay as they were.
C24_SessionFrame ==
    [][\A n \in Handles :
          SessionReturns(n) =>
              /\ \A g \in Used :
                    /\ dbs'[g] = dbs[g]
                    /\ configs'[dbs[g].Config] = configs[dbs[g].Config]
                    /\ stmtObjs'[dbs[g].Statement] = stmtObjs[dbs[g].Statement]
              /\ dbs'[n].parent \in Used
              /\ dbs'[n].Error = dbs[dbs'[n].parent].Error
              /\ cacheStore' # cacheStore
                    => /\ dbs'[n].flags.PrepareStmt
                       /\ cacheStore = NoStore
                       /\ cacheStore' = nStores'
                       /\ nStores' = nStores + 1
              /\ UNCHANGED <<storeVars, pluginVars, txVars>>]_vars

\* a handle that carries an error, of a root opened without prepare mode, and
\* the handle that Session with a context, PrepareStmt, SkipHooks and DryRun
\* returned for it: the parent has its options, its request object and its
\* Error as before, the new handle has what the Session set, and the prepared
\* pool is in the cache
C24_Witness ==
    \E h, n \in Used :
        /\ dbs[n].via = "Session" /\ dbs[n].parent = h
        /\ dbs[n].flags = [Context |-> "ctx1", PrepareStmt |-> TRUE, SkipHooks |-> TRUE,
                           NewDB |-> FALSE, Initialized |-> FALSE, DryRun |-> TRUE]
        /\ dbs[h].clone = 0 /\ dbs[h].Error = <<"e2">>
        /\ ~configs[dbs[h].Config].DryRun /\ ~configs[dbs[h].Config].PrepareStmt
        /\ configs[dbs[h].Config].ConnPool.kind = "DB"
        /\ Req(h).Context = "Background" /\ ~Req(h).SkipHooks
        /\ Req(h).ConnPool.kind = "DB"
        /\ configs[dbs[n].Config].DryRun /\ configs[dbs[n].Config].PrepareStmt
        /\ Req(n).Context = "ctx1" /\ Req(n).SkipHooks
        /\ Req(n).ConnPool = Pool("PreparedStmtDB", cacheStore)
        /\ cacheStore # NoStore

====
